---- MODULE Spec2Model ----
(***************************************************************************)
(* Model of btb/basic_btb/basic_btb.cc: a set-associative branch target    *)
(* buffer, a history-hashed indirect target table, a circular return       *)
(* address stack and a call-instruction-size tracker, for one core.        *)
(*                                                                         *)
(* The storage sizes are scaled down from the source (1024 sets, 8 ways,   *)
(* 4096 indirect slots, 64 RAS slots, 1024 size trackers) so that every    *)
(* set, slot and wraparound is exercised; all index arithmetic is computed *)
(* from the sizes exactly as the source computes it.                       *)
(***************************************************************************)
EXTENDS Integers, Sequences, FiniteSets, TLC

\* ---------------------------------------------------------------- sizes
BASIC_BTB_SETS == 2
BASIC_BTB_WAYS == 2
BASIC_BTB_INDIRECT_SIZE == 4
BASIC_BTB_RAS_SIZE == 2
BASIC_BTB_CALL_INSTR_SIZE_TRACKERS == 4

\* the low address bits dropped by (ip >> 2)
IpShift == 2
\* the largest address distance accepted as a call instruction size
MaxCallSize == 10
\* the call instruction size every tracker starts with
DefaultCallSize == 4

\* ---------------------------------------------------------------- bounds
\* the cycle counter of the core is capped at MaxCycle
MaxCycle == 2
\* at most MaxInflight branches are predicted and not yet updated
MaxInflight == 2

\* ---------------------------------------------------------------- branch kinds
BRANCH_DIRECT_JUMP == "BRANCH_DIRECT_JUMP"
BRANCH_INDIRECT == "BRANCH_INDIRECT"
BRANCH_CONDITIONAL == "BRANCH_CONDITIONAL"
BRANCH_DIRECT_CALL == "BRANCH_DIRECT_CALL"
BRANCH_INDIRECT_CALL == "BRANCH_INDIRECT_CALL"
BRANCH_RETURN == "BRANCH_RETURN"

CacheKinds == {BRANCH_CONDITIONAL, BRANCH_DIRECT_JUMP, BRANCH_DIRECT_CALL}
IndirectKinds == {BRANCH_INDIRECT, BRANCH_INDIRECT_CALL}
CallKinds == {BRANCH_DIRECT_CALL, BRANCH_INDIRECT_CALL}
BranchKinds == CacheKinds \cup IndirectKinds \cup {BRANCH_RETURN}

\* ---------------------------------------------------------------- arithmetic
RECURSIVE Pow2(_)
Pow2(n) == IF n = 0 THEN 1 ELSE 2 * Pow2(n - 1)

\* util.h lg2: floor of the binary logarithm
RECURSIVE lg2(_)
lg2(n) == IF n < 2 THEN 0 ELSE 1 + lg2(n \div 2)

RECURSIVE BitXor(_, _)
BitXor(a, b) ==
    IF a = 0 /\ b = 0 THEN 0
    ELSE ((a + b) % 2) + 2 * BitXor(a \div 2, b \div 2)

RECURSIVE BitAnd(_, _)
BitAnd(a, b) ==
    IF a = 0 \/ b = 0 THEN 0
    ELSE ((a % 2) * (b % 2)) + 2 * BitAnd(a \div 2, b \div 2)

ShiftRight(a, n) == a \div Pow2(n)

\* width of the conditional history bitset
HistoryBits == lg2(BASIC_BTB_INDIRECT_SIZE)

\* ---------------------------------------------------------------- state
VARIABLES
    basic_btb,                      \* flat array of SETS*WAYS entries
    basic_btb_indirect,             \* indirect target table
    basic_btb_conditional_history,  \* value of the history bitset
    basic_btb_ras,                  \* return address stack slots
    basic_btb_ras_index,            \* index of the top of the stack
    basic_btb_call_instr_sizes,     \* call instruction size trackers
    current_cycle,                  \* cycle counter of the core
    past_end,                       \* "untouched", or "stored"/"fault" once an entry
                                    \* was stored one past the end of basic_btb
    last,                           \* the last call and what it returned
    inserted,                       \* history: the allocating updates so far
    untaken,                        \* history: tags updated not-taken while held
    pushed,                         \* history: the addresses pushed so far
    popped,                         \* history: the addresses popped so far
    nesting,                        \* history: the calls that have not returned
    inflight                        \* history: the branches predicted and not
                                    \* yet updated, oldest first

\* the state of the predictor
state == <<basic_btb, basic_btb_indirect, basic_btb_conditional_history,
           basic_btb_ras, basic_btb_ras_index, basic_btb_call_instr_sizes,
           current_cycle, past_end>>

\* the history variables; each is kept by the specification that needs it
history == <<inserted, untaken, pushed, popped, nesting, inflight>>

vars == <<state, last, history>>

BtbSlots == 0 .. (BASIC_BTB_SETS * BASIC_BTB_WAYS - 1)

BASIC_BTB_ENTRY ==
    [ip_tag |-> 0, target |-> 0, always_taken |-> FALSE, last_cycle_used |-> 0]

\* ---------------------------------------------------------------- helpers
\* a distance that is 0 whenever addr2 is the larger
AbsDistOneSided(addr1, addr2) ==
    IF addr1 > addr2 THEN addr1 - addr2 ELSE 0

basic_btb_abs_addr_dist(addr1, addr2) ==
    IF addr1 > addr2 THEN addr1 - addr2 ELSE addr2 - addr1

\* a hash of the instruction index, as the target cache uses
TrackerHashOfShiftedIp(ip) ==
    BitAnd(ShiftRight(ip, IpShift), BASIC_BTB_CALL_INSTR_SIZE_TRACKERS - 1)

basic_btb_call_size_tracker_hash(ip) ==
    BitAnd(ip, BASIC_BTB_CALL_INSTR_SIZE_TRACKERS - 1)

basic_btb_get_call_size(sizes, ip) ==
    sizes[basic_btb_call_size_tracker_hash(ip)]

\* an advance that stops at the last slot
PushIndexNoWrap(idx) == IF idx + 1 = BASIC_BTB_RAS_SIZE THEN idx ELSE idx + 1

\* a push that overwrites the top slot
PushIndexInPlace(idx) == idx

\* an advance by two slots
PushIndexTwice(idx) == (idx + 2) % BASIC_BTB_RAS_SIZE

\* index after push_basic_btb_ras advanced it
PushIndex(idx) == IF idx + 1 = BASIC_BTB_RAS_SIZE THEN 0 ELSE idx + 1

\* a retreat that stops at slot 0
PopIndexNoWrap(idx) == IF idx - 1 = -1 THEN 0 ELSE idx - 1

\* a retreat that goes below slot 0
PopIndexBelowZero(idx) == idx - 1

\* index after pop_basic_btb_ras retreated it
PopIndex(idx) == IF idx - 1 = -1 THEN (idx - 1) + BASIC_BTB_RAS_SIZE ELSE idx - 1

\* a read of slot 0, wherever the top is
PeekSlotZero(ras, idx) == ras[0]

\* a read of the slot below the top
PeekBelowTop(ras, idx) == ras[PopIndex(idx)]

peek_basic_btb_ras(ras, idx) == ras[idx]

\* a slot chosen by the address alone
IndirectIndexNoHistory(ip, h) ==
    ShiftRight(ip, IpShift) % BASIC_BTB_INDIRECT_SIZE

\* slot of the indirect table addressed by ip under history h
IndirectIndex(ip, h) ==
    BitXor(ShiftRight(ip, IpShift), h) % BASIC_BTB_INDIRECT_SIZE

\* set of the target cache addressed by ip
SetIdx(ip) == ShiftRight(ip, IpShift) % BASIC_BTB_SETS

SetBegin(ip) == SetIdx(ip) * BASIC_BTB_WAYS

SetEnd(ip) == SetBegin(ip) + BASIC_BTB_WAYS

\* a search that looks at the first way of the set only
FindEntryFirstWayOnly(btb, ip) ==
    IF btb[SetBegin(ip)].ip_tag = ip THEN SetBegin(ip) ELSE SetEnd(ip)

\* std::find_if over [set_begin, set_end): the first slot whose tag is ip,
\* or set_end
FindEntry(btb, ip) ==
    LET hits == {i \in SetBegin(ip) .. (SetEnd(ip) - 1) : btb[i].ip_tag = ip}
    IN  IF hits = {} THEN SetEnd(ip)
        ELSE CHOOSE i \in hits : \A j \in hits : i <= j

\* min_element with the comparison reversed: the first slot no other slot is
\* larger than
MinElementReversed(btb, ip) ==
    LET ways == SetBegin(ip) .. (SetEnd(ip) - 1)
        maxs == {i \in ways : \A j \in ways :
                    btb[i].last_cycle_used >= btb[j].last_cycle_used}
    IN  CHOOSE i \in maxs : \A j \in maxs : i <= j

\* a minimum that keeps the last of the slots no other slot is smaller than
MinElementLastOfTies(btb, ip) ==
    LET ways == SetBegin(ip) .. (SetEnd(ip) - 1)
        mins == {i \in ways : \A j \in ways :
                    btb[i].last_cycle_used <= btb[j].last_cycle_used}
    IN  CHOOSE i \in mins : \A j \in mins : i >= j

\* std::min_element over [set_begin, set_end) by last_cycle_used: the first
\* slot no other slot is smaller than
MinElement(btb, ip) ==
    LET ways == SetBegin(ip) .. (SetEnd(ip) - 1)
        mins == {i \in ways : \A j \in ways :
                    btb[i].last_cycle_used <= btb[j].last_cycle_used}
    IN  CHOOSE i \in mins : \A j \in mins : i <= j

\* a miss that keeps the hint computed at the top of btb_prediction
MissAlwaysTakenKeepsHint(kind) == kind # BRANCH_CONDITIONAL

\* always_taken returned when the target cache has no entry for the ip
MissAlwaysTaken(kind) == TRUE

\* ---------------------------------------------------------------- Init
Init ==
    /\ basic_btb = [i \in BtbSlots |-> BASIC_BTB_ENTRY]
    /\ basic_btb_indirect = [i \in 0 .. (BASIC_BTB_INDIRECT_SIZE - 1) |-> 0]
    /\ basic_btb_conditional_history = 0
    /\ basic_btb_ras = [i \in 0 .. (BASIC_BTB_RAS_SIZE - 1) |-> 0]
    /\ basic_btb_ras_index = 0
    /\ basic_btb_call_instr_sizes =
           [i \in 0 .. (BASIC_BTB_CALL_INSTR_SIZE_TRACKERS - 1) |-> DefaultCallSize]
    /\ current_cycle = 0
    /\ past_end = "untouched"
    /\ last = [op |-> "initialize_btb"]
    /\ inserted = <<>>
    /\ untaken = {}
    /\ pushed = <<>>
    /\ popped = <<>>
    /\ nesting = <<>>
    /\ inflight = <<>>

\* ---------------------------------------------------------------- btb_prediction
\* the process is alive: no store outside the array has faulted
Running == past_end # "fault"

\* what btb_prediction returns, with the call it answers
Prediction(ip, branch_type, target, always_taken) ==
    [op |-> "btb_prediction", ip |-> ip, branch_type |-> branch_type,
     target |-> target, always_taken |-> always_taken,
     ras_index0 |-> basic_btb_ras_index]

btb_prediction(ip, branch_type) ==
    LET is_call == branch_type \in CallKinds
        idx1 == IF is_call THEN PushIndex(basic_btb_ras_index)
                ELSE basic_btb_ras_index
        ras1 == IF is_call THEN [basic_btb_ras EXCEPT ![idx1] = ip]
                ELSE basic_btb_ras
        always_taken0 == branch_type # BRANCH_CONDITIONAL
        top == peek_basic_btb_ras(ras1, idx1)
        btb_entry == FindEntry(basic_btb, ip)
    IN
    /\ Running
    /\ basic_btb_ras_index' = idx1
    /\ basic_btb_ras' = ras1
    /\ UNCHANGED <<basic_btb_indirect, basic_btb_conditional_history,
                   basic_btb_call_instr_sizes, current_cycle, past_end>>
    /\ IF branch_type = BRANCH_RETURN
       THEN /\ UNCHANGED basic_btb
            /\ last' = Prediction(ip, branch_type,
                           top + basic_btb_get_call_size(
                                     basic_btb_call_instr_sizes, top),
                           always_taken0)
       ELSE IF branch_type \in IndirectKinds
       THEN /\ UNCHANGED basic_btb
            /\ last' = Prediction(ip, branch_type,
                           basic_btb_indirect[
                               IndirectIndex(ip, basic_btb_conditional_history)],
                           always_taken0)
       ELSE IF btb_entry = SetEnd(ip)
       THEN /\ UNCHANGED basic_btb
            /\ last' = Prediction(ip, branch_type, 0,
                                  MissAlwaysTaken(branch_type))
       ELSE /\ basic_btb' = [basic_btb EXCEPT
                                ![btb_entry].last_cycle_used = current_cycle]
            /\ last' = Prediction(ip, branch_type,
                                  basic_btb[btb_entry].target,
                                  basic_btb[btb_entry].always_taken)

\* ---------------------------------------------------------------- update_btb
\* some way of ip's set holds the tag ip
Present(btb, ip) ==
    \E w \in 0 .. (BASIC_BTB_WAYS - 1) :
        btb[(ShiftRight(ip, IpShift) % BASIC_BTB_SETS) * BASIC_BTB_WAYS + w].ip_tag = ip

\* update_btb allocates an entry: the ip missed, the target is not 0 and the
\* branch was taken
Allocates(btb, ip, branch_target, taken) ==
    FindEntry(btb, ip) = SetEnd(ip) /\ branch_target # 0 /\ taken

\* the slot *btb_entry designates when update_btb stores the entry
UpdateSlot(btb, ip, branch_target, taken) ==
    IF Allocates(btb, ip, branch_target, taken)
    THEN MinElement(btb, ip) ELSE FindEntry(btb, ip)

\* the call update_btb was given, with what it found: the address it popped
\* (RETURN), the slot it stored to and whether the tag was in its set (target
\* cache kinds)
Updated(ip, branch_target, taken, branch_type, call_ip, slot, present) ==
    [op |-> "update_btb", ip |-> ip, branch_target |-> branch_target,
     taken |-> taken, branch_type |-> branch_type,
     call_ip |-> call_ip, slot |-> slot, present |-> present]

\* an allocation that leaves the victim's flag as it was
StoredAlwaysTakenKeepsVictim(btb, slot, allocated, taken) ==
    btb[slot].always_taken /\ taken

\* the always_taken flag update_btb stores: set by an allocation, then
\* cleared unless the branch was taken
StoredAlwaysTaken(btb, slot, allocated, taken) ==
    (IF allocated THEN TRUE ELSE btb[slot].always_taken) /\ taken

\* the target-cache part of update_btb
UpdateCache(ip, branch_target, taken) ==
    LET allocated == Allocates(basic_btb, ip, branch_target, taken)
        slot == UpdateSlot(basic_btb, ip, branch_target, taken)
    IN
    IF slot \in BtbSlots
    THEN /\ basic_btb' = [basic_btb EXCEPT ![slot] =
                [ip_tag |-> ip, target |-> branch_target,
                 always_taken |->
                     StoredAlwaysTaken(basic_btb, slot, allocated, taken),
                 last_cycle_used |-> current_cycle]]
         /\ UNCHANGED past_end
    ELSE \* *btb_entry is one past the end of the array: the flag is read
         \* from, and the entry stored to, memory the array does not own;
         \* the store either goes unnoticed or faults
         /\ past_end' \in {"stored", "fault"}
         /\ UNCHANGED basic_btb

\* a shift that keeps the bit shifted out of the bitset
ShiftHistoryKeepsTopBit(h, taken) ==
    (h * 2) + (IF taken THEN 1 ELSE 0)

\* the history bitset after <<= 1 and set(0, taken): the shift drops the
\* bit that leaves the HistoryBits of the bitset and clears bit 0
ShiftHistory(h, taken) ==
    LET shifted == (h * 2) % Pow2(HistoryBits)
    IN  (shifted - (shifted % 2)) + (IF taken THEN 1 ELSE 0)

update_btb(ip, branch_target, taken, branch_type) ==
    LET call_ip == basic_btb_ras[basic_btb_ras_index]
        estimated_call_instr_size == basic_btb_abs_addr_dist(call_ip, branch_target)
    IN
    /\ Running
    /\ UNCHANGED current_cycle
    /\ IF branch_type \in IndirectKinds
       THEN basic_btb_indirect' = [basic_btb_indirect EXCEPT
                ![IndirectIndex(ip, basic_btb_conditional_history)] = branch_target]
       ELSE UNCHANGED basic_btb_indirect
    /\ IF branch_type = BRANCH_CONDITIONAL
       THEN basic_btb_conditional_history' =
                ShiftHistory(basic_btb_conditional_history, taken)
       ELSE UNCHANGED basic_btb_conditional_history
    /\ IF branch_type = BRANCH_RETURN
       THEN /\ basic_btb_ras' = [basic_btb_ras EXCEPT ![basic_btb_ras_index] = 0]
            /\ basic_btb_ras_index' = PopIndex(basic_btb_ras_index)
            /\ basic_btb_call_instr_sizes' =
                   IF estimated_call_instr_size <= MaxCallSize
                   THEN [basic_btb_call_instr_sizes EXCEPT
                            ![basic_btb_call_size_tracker_hash(call_ip)] =
                                estimated_call_instr_size]
                   ELSE basic_btb_call_instr_sizes
            /\ UNCHANGED <<basic_btb, past_end>>
            /\ last' = Updated(ip, branch_target, taken, branch_type,
                               call_ip, -1, FALSE)
       ELSE /\ UNCHANGED <<basic_btb_ras, basic_btb_ras_index,
                           basic_btb_call_instr_sizes>>
            /\ IF branch_type \notin IndirectKinds
               THEN /\ UpdateCache(ip, branch_target, taken)
                    /\ last' = Updated(ip, branch_target, taken, branch_type, 0,
                                   UpdateSlot(basic_btb, ip, branch_target, taken),
                                   Present(basic_btb, ip))
               ELSE /\ UNCHANGED <<basic_btb, past_end>>
                    /\ last' = Updated(ip, branch_target, taken, branch_type,
                                       0, -1, FALSE)

\* the core advances its cycle counter between calls
Tick ==
    /\ Running
    /\ current_cycle < MaxCycle
    /\ current_cycle' = current_cycle + 1
    /\ UNCHANGED <<basic_btb, basic_btb_indirect, basic_btb_conditional_history,
                   basic_btb_ras, basic_btb_ras_index, basic_btb_call_instr_sizes,
                   past_end, last, history>>

\* ---------------------------------------------------------------- the predictor
\* every branch kind, on one address of the last set
Addrs == {4}
Targets == {8}

Predict ==
    \E ip \in Addrs, k \in BranchKinds :
        btb_prediction(ip, k) /\ UNCHANGED history

Update ==
    \E ip \in Addrs, t \in Targets, taken \in BOOLEAN, k \in BranchKinds :
        update_btb(ip, t, taken, k) /\ UNCHANGED history

Next == Predict \/ Update \/ Tick

Spec == Init /\ [][Next]_vars

\* ---------------------------------------------------------------- target cache
\* one address of set 0 (8) and two of the last set (4, 12)
CacheAddrs == {4, 8, 12}
CacheTargets == {0, 8}

PredictCache ==
    \E ip \in CacheAddrs, k \in {BRANCH_CONDITIONAL, BRANCH_DIRECT_JUMP} :
        btb_prediction(ip, k) /\ UNCHANGED history

UpdateDirect ==
    \E ip \in CacheAddrs, t \in CacheTargets, taken \in BOOLEAN :
        update_btb(ip, t, taken, BRANCH_DIRECT_JUMP) /\ UNCHANGED history

NextCache == PredictCache \/ UpdateDirect \/ Tick

SpecCache == Init /\ [][NextCache]_vars

\* ---------------------------------------------------------------- C1
\* the last call was a btb_prediction of a target-cache kind
CachePredicted(l) == l.op = "btb_prediction" /\ l.branch_type \in CacheKinds

\* C1 as stated: a btb_prediction of a target-cache kind whose ip is in no
\* way of its set returns target 0, with always_taken true for the
\* unconditional kinds and false for BRANCH_CONDITIONAL.
C1_MissHintByKind ==
    [][(CachePredicted(last') /\ ~Present(basic_btb, last'.ip))
        => /\ last'.target = 0
           /\ last'.always_taken = (last'.branch_type # BRANCH_CONDITIONAL)]_vars

\* C1 amended: a btb_prediction of a target-cache kind whose ip is in no way
\* of its set returns target 0 with always_taken true, whatever the kind,
\* BRANCH_CONDITIONAL included.
C1_MissReturnsZeroTaken ==
    [][(CachePredicted(last') /\ ~Present(basic_btb, last'.ip))
        => (last'.target = 0 /\ last'.always_taken = TRUE)]_vars

\* a conditional branch was predicted while its set held other tags only
C1_Witness ==
    /\ CachePredicted(last)
    /\ last.branch_type = BRANCH_CONDITIONAL
    /\ ~Present(basic_btb, last.ip)
    /\ \E i \in BtbSlots : basic_btb[i].ip_tag # 0
    /\ last.target = 0
    /\ last.always_taken

\* ---------------------------------------------------------------- C2
\* the last call was an update_btb of a target-cache kind for a taken branch
\* with a non-zero address and a non-zero target
TakenUpdate(l) ==
    /\ l.op = "update_btb"
    /\ l.branch_type \in CacheKinds
    /\ l.ip # 0
    /\ l.branch_target # 0
    /\ l.taken

\* C2: the btb_prediction of address a that directly follows a taken
\* update_btb(a, t) with non-zero a and t returns target t, and returns
\* always_taken true when a was in no way of its set before that update.
C2_UpdateThenPredict ==
    [][(TakenUpdate(last) /\ CachePredicted(last') /\ last'.ip = last.ip)
        => /\ last'.target = last.branch_target
           /\ (~last.present => last'.always_taken)]_vars

\* a taken update has just allocated an entry for an address its set did
\* not hold, replacing another tag
C2_Witness ==
    /\ TakenUpdate(last)
    /\ ~last.present
    /\ Present(basic_btb, last.ip)
    /\ basic_btb[last.slot].ip_tag = last.ip
    /\ \E i \in BtbSlots : basic_btb[i].ip_tag \notin {0, last.ip}

\* ---------------------------------------------------------------- C3
\* the Ways + 1 addresses of the last set that are inserted
InsertAddrs == {4 * (BASIC_BTB_SETS * j + (BASIC_BTB_SETS - 1)) :
                    j \in 0 .. BASIC_BTB_WAYS}
InsertTargets == {8, 16}

\* the addresses inserted so far
InsertedIps == {inserted[i].ip : i \in 1 .. Len(inserted)}

\* an update of a taken branch for an address not inserted before
Insert ==
    \E ip \in InsertAddrs \ InsertedIps, t \in InsertTargets, k \in CacheKinds :
        /\ update_btb(ip, t, TRUE, k)
        /\ inserted' = Append(inserted,
                           [ip |-> ip, target |-> t, cycle |-> current_cycle])
        /\ UNCHANGED <<untaken, pushed, popped, nesting, inflight>>

NextInsert == Insert \/ Tick

SpecInsert == Init /\ [][NextInsert]_vars

\* the i-th inserted address is in a way of its set, with its target
Survives(i) ==
    \E w \in 0 .. (BASIC_BTB_WAYS - 1) :
        LET e == basic_btb[(BASIC_BTB_SETS - 1) * BASIC_BTB_WAYS + w]
        IN  e.ip_tag = inserted[i].ip /\ e.target = inserted[i].target

\* C3 as stated: once Ways + 1 distinct addresses of one set have been
\* inserted into the initialized cache by taken updates, under a cycle
\* counter that never decreases, exactly one of them is gone from the set,
\* it is one whose last_cycle_used was lowest, and the other Ways are in the
\* set with their targets.
C3_SetCapacity ==
    Len(inserted) = BASIC_BTB_WAYS + 1 =>
        \E v \in 1 .. BASIC_BTB_WAYS :
            /\ ~Survives(v)
            /\ \A i \in 1 .. (BASIC_BTB_WAYS + 1) : i # v => Survives(i)
            /\ \A i \in 1 .. BASIC_BTB_WAYS :
                   inserted[v].cycle <= inserted[i].cycle

\* C3 amended: once Ways + 1 distinct addresses of one set have been
\* inserted into the initialized cache by taken updates, under a cycle
\* counter that never decreases and is at least 1 at every insertion, exactly
\* one of them is gone from the set, it is one whose last_cycle_used was
\* lowest, and the other Ways are in the set with their targets.
C3_SetCapacityFromCycleOne ==
    (/\ Len(inserted) = BASIC_BTB_WAYS + 1
     /\ \A i \in 1 .. Len(inserted) : inserted[i].cycle >= 1) =>
        \E v \in 1 .. BASIC_BTB_WAYS :
            /\ ~Survives(v)
            /\ \A i \in 1 .. (BASIC_BTB_WAYS + 1) : i # v => Survives(i)
            /\ \A i \in 1 .. BASIC_BTB_WAYS :
                   inserted[v].cycle <= inserted[i].cycle

\* Ways + 1 addresses were inserted from cycle 1 on, the last in a later cycle
\* than the first, and the first is gone
C3_Witness ==
    /\ Len(inserted) = BASIC_BTB_WAYS + 1
    /\ \A i \in 1 .. Len(inserted) : inserted[i].cycle >= 1
    /\ inserted[1].cycle < inserted[BASIC_BTB_WAYS + 1].cycle
    /\ ~Survives(1)
    /\ \A i \in 2 .. (BASIC_BTB_WAYS + 1) : Survives(i)

\* ---------------------------------------------------------------- C4
\* the tags an update found in their set and updated not-taken, less those
\* whose slot an allocation has since taken as its victim
UntakenAfter(ip, branch_target, taken) ==
    IF Allocates(basic_btb, ip, branch_target, taken)
    THEN untaken \ {basic_btb[MinElement(basic_btb, ip)].ip_tag}
    ELSE IF Present(basic_btb, ip) /\ ~taken
    THEN untaken \cup {ip}
    ELSE untaken

\* an address of the last set (4) and one of the set before it (8)
DecayAddrs == {4, 8}

PredictConditional ==
    \E ip \in DecayAddrs :
        btb_prediction(ip, BRANCH_CONDITIONAL) /\ UNCHANGED history

UpdateConditional ==
    \E ip \in DecayAddrs, t \in CacheTargets, taken \in BOOLEAN :
        /\ update_btb(ip, t, taken, BRANCH_CONDITIONAL)
        /\ untaken' = UntakenAfter(ip, t, taken)
        /\ UNCHANGED <<inserted, pushed, popped, nesting, inflight>>

NextDecay == PredictConditional \/ UpdateConditional \/ Tick

SpecDecay == Init /\ [][NextDecay]_vars

\* C4: a btb_prediction of an address that was updated not-taken while the
\* cache held it, and whose slot no allocation has taken as victim since,
\* returns always_taken false.
C4_AlwaysTakenDecay ==
    (CachePredicted(last) /\ last.ip \in untaken) => ~last.always_taken

\* ---------------------------------------------------------------- C10
\* the ways of the set selected by (address >> 2) mod Sets
WaysOf(ip) ==
    LET set == (ip \div 4) % BASIC_BTB_SETS
    IN  (set * BASIC_BTB_WAYS) .. (set * BASIC_BTB_WAYS + BASIC_BTB_WAYS - 1)

\* C10: every slot a call reads or writes is in range: an update_btb of a
\* target-cache kind stores to one of the Ways slots of the set selected by
\* (address >> 2) mod Sets and nothing is stored outside the array, and the
\* indices into the return address stack, the indirect table and the size
\* trackers are within their sizes.
C10_AccessesInRange ==
    /\ (last.op = "update_btb" /\ last.branch_type \in CacheKinds)
           => last.slot \in WaysOf(last.ip)
    /\ past_end = "untouched"
    /\ basic_btb_ras_index \in 0 .. (BASIC_BTB_RAS_SIZE - 1)
    /\ last.op # "initialize_btb" =>
           /\ IndirectIndex(last.ip, basic_btb_conditional_history)
                  \in 0 .. (BASIC_BTB_INDIRECT_SIZE - 1)
           /\ basic_btb_call_size_tracker_hash(
                  basic_btb_ras[basic_btb_ras_index])
                  \in 0 .. (BASIC_BTB_CALL_INSTR_SIZE_TRACKERS - 1)

\* ---------------------------------------------------------------- return address stack
\* call sites, the address of the return instruction, and resolved targets
RasAddrs == {4, 5, 17}
RetAddrs == {24}
RasTargets == {0, 8, 21}

\* btb_prediction of a call pushes its address
Push ==
    \E ip \in RasAddrs, k \in CallKinds :
        btb_prediction(ip, k) /\ UNCHANGED history

\* btb_prediction of a return peeks at the top
Peek ==
    \E ip \in RetAddrs :
        btb_prediction(ip, BRANCH_RETURN) /\ UNCHANGED history

\* update_btb of a return pops the top
Pop ==
    \E ip \in RetAddrs, t \in RasTargets :
        update_btb(ip, t, TRUE, BRANCH_RETURN) /\ UNCHANGED history

NextRas == Push \/ Peek \/ Pop

SpecRas == Init /\ [][NextRas]_vars

IsPush(l) == l.op = "btb_prediction" /\ l.branch_type \in CallKinds

IsPeek(l) == l.op = "btb_prediction" /\ l.branch_type = BRANCH_RETURN

IsPop(l) == l.op = "update_btb" /\ l.branch_type = BRANCH_RETURN

\* ---------------------------------------------------------------- C5
\* C5: after a push of A the top of the stack reads A, and so does a peek
\* that directly follows; a pop that directly follows the push returns A,
\* leaves 0 in the slot that held A and puts the top index back where it
\* was before the push.
C5_RasRoundTrip ==
    [][/\ IsPush(last') =>
              basic_btb_ras'[basic_btb_ras_index'] = last'.ip
       /\ (IsPush(last) /\ IsPeek(last')) =>
              last'.target = last.ip + basic_btb_call_instr_sizes[
                                 last.ip % BASIC_BTB_CALL_INSTR_SIZE_TRACKERS]
       /\ (IsPush(last) /\ IsPop(last')) =>
              /\ last'.call_ip = last.ip
              /\ basic_btb_ras'[basic_btb_ras_index] = 0
              /\ basic_btb_ras_index' = last.ras_index0]_vars

\* a pop has returned a call site from slot 0 and the top index wrapped
\* back to the last slot
C5_Witness ==
    /\ IsPop(last)
    /\ last.call_ip \in RasAddrs
    /\ basic_btb_ras_index = BASIC_BTB_RAS_SIZE - 1
    /\ basic_btb_ras[0] = 0
    /\ basic_btb_ras[basic_btb_ras_index] # 0

\* ---------------------------------------------------------------- C7
\* the distance between a call site and a resolved target
Distance(c, t) == IF t >= c THEN t - c ELSE c - t

\* C7: an update_btb of a return that pops call site c and resolves to a
\* target at distance d <= 10 from c leaves d in the tracker of index
\* c mod size; so a target of c + 4 leaves 4, each time it is repeated.
C7_CallSizeConverges ==
    (IsPop(last) /\ Distance(last.call_ip, last.branch_target) <= 10) =>
        basic_btb_call_instr_sizes[
            last.call_ip % BASIC_BTB_CALL_INSTR_SIZE_TRACKERS]
            = Distance(last.call_ip, last.branch_target)

\* a return resolved 4 past the call site it popped, while another tracker
\* holds another size
C7_Witness ==
    /\ IsPop(last)
    /\ last.call_ip \in RasAddrs
    /\ last.branch_target = last.call_ip + 4
    /\ basic_btb_call_instr_sizes[
           last.call_ip % BASIC_BTB_CALL_INSTR_SIZE_TRACKERS] = 4
    /\ \E i \in 0 .. (BASIC_BTB_CALL_INSTR_SIZE_TRACKERS - 1) :
           basic_btb_call_instr_sizes[i] # 4

\* ---------------------------------------------------------------- C8
\* C8: an update_btb of a return whose popped call site and resolved target
\* are more than 10 apart, in either direction, changes no tracker.
C8_CallSizeRejects ==
    [][(IsPop(last') /\ Distance(last'.call_ip, last'.branch_target) > 10)
        => basic_btb_call_instr_sizes' = basic_btb_call_instr_sizes]_vars

\* a return resolved more than 10 below the call site it popped, with a
\* tracker that had been recalibrated before
C8_Witness ==
    /\ IsPop(last)
    /\ last.call_ip > last.branch_target + 10
    /\ \E i \in 0 .. (BASIC_BTB_CALL_INSTR_SIZE_TRACKERS - 1) :
           basic_btb_call_instr_sizes[i] # DefaultCallSize

\* ---------------------------------------------------------------- C6
\* capacity + 2 distinct call sites
WrapAddrs == {4 * i : i \in 1 .. (BASIC_BTB_RAS_SIZE + 2)}

\* the addresses pushed so far
PushedIps == {pushed[i] : i \in 1 .. Len(pushed)}

\* one of the first capacity + 1 pushes, of an address not pushed before
PushDistinct ==
    /\ Len(pushed) <= BASIC_BTB_RAS_SIZE
    /\ \E ip \in WrapAddrs \ PushedIps, k \in CallKinds :
           /\ btb_prediction(ip, k)
           /\ pushed' = Append(pushed, ip)
           /\ UNCHANGED <<inserted, untaken, popped, nesting, inflight>>

\* one of the capacity pops that follow the capacity + 1 pushes
PopPushed ==
    /\ Len(pushed) = BASIC_BTB_RAS_SIZE + 1
    /\ Len(popped) < BASIC_BTB_RAS_SIZE
    /\ \E ip \in RetAddrs, t \in RasTargets :
           /\ update_btb(ip, t, TRUE, BRANCH_RETURN)
           /\ popped' = Append(popped, last'.call_ip)
           /\ UNCHANGED <<inserted, untaken, pushed, nesting, inflight>>

NextWrap == PushDistinct \/ Peek \/ PopPushed

SpecWrap == Init /\ [][NextWrap]_vars

\* C6: after capacity + 1 distinct addresses were pushed onto the
\* initialized stack, the top reads the address pushed last, and the pops
\* that follow, up to capacity of them, return the addresses pushed last in
\* the reverse of the order they were pushed in.
C6_RasWraparound ==
    Len(pushed) = BASIC_BTB_RAS_SIZE + 1 =>
        /\ popped = <<>> =>
               basic_btb_ras[basic_btb_ras_index] = pushed[BASIC_BTB_RAS_SIZE + 1]
        /\ \A j \in 1 .. Len(popped) :
               popped[j] = pushed[BASIC_BTB_RAS_SIZE + 2 - j]

\* capacity + 1 addresses were pushed and capacity of them popped
C6_Witness ==
    /\ Len(pushed) = BASIC_BTB_RAS_SIZE + 1
    /\ Len(popped) = BASIC_BTB_RAS_SIZE
    /\ popped[BASIC_BTB_RAS_SIZE] = pushed[2]

\* ---------------------------------------------------------------- indirect table
\* two addresses that share their slot under every history (4, 20); the
\* conditional branch that moves the history is at 8
IndirectAddrs == {4, 20}
IndirectCallAddrs == {4}
IndirectTargets == {8, 16}
CondAddrs == {8}

PredictIndirect ==
    \/ \E ip \in IndirectAddrs :
           btb_prediction(ip, BRANCH_INDIRECT) /\ UNCHANGED history
    \/ \E ip \in IndirectCallAddrs :
           btb_prediction(ip, BRANCH_INDIRECT_CALL) /\ UNCHANGED history

UpdateIndirect ==
    \/ \E ip \in IndirectAddrs, t \in IndirectTargets, taken \in BOOLEAN :
           update_btb(ip, t, taken, BRANCH_INDIRECT) /\ UNCHANGED history
    \/ \E ip \in IndirectCallAddrs, t \in IndirectTargets :
           update_btb(ip, t, TRUE, BRANCH_INDIRECT_CALL) /\ UNCHANGED history

\* a resolved conditional branch shifts its outcome into the history
UpdateHistory ==
    \E ip \in CondAddrs, t \in IndirectTargets, taken \in BOOLEAN :
        update_btb(ip, t, taken, BRANCH_CONDITIONAL) /\ UNCHANGED history

NextIndirect == PredictIndirect \/ UpdateIndirect \/ UpdateHistory

SpecIndirect == Init /\ [][NextIndirect]_vars

\* ---------------------------------------------------------------- C9
IsIndirectUpdate(l) == l.op = "update_btb" /\ l.branch_type \in IndirectKinds

IsIndirectPredict(l) == l.op = "btb_prediction" /\ l.branch_type \in IndirectKinds

\* ((a >> 2) xor history) mod size
SlotOf(a, h) == BitXor(a \div 4, h) % BASIC_BTB_INDIRECT_SIZE

\* C9: an update_btb of an indirect kind stores its target in slot
\* ((a >> 2) xor history) mod size, whatever that slot held; a
\* btb_prediction of an indirect kind returns what that slot holds, with
\* always_taken true; so the prediction of a that directly follows an update
\* of a, under the history of the update, returns the target of the update.
C9_IndirectTable ==
    [][/\ IsIndirectUpdate(last') =>
              basic_btb_indirect'[
                  SlotOf(last'.ip, basic_btb_conditional_history')]
                  = last'.branch_target
       /\ IsIndirectPredict(last') =>
              /\ last'.target = basic_btb_indirect[
                     SlotOf(last'.ip, basic_btb_conditional_history)]
              /\ last'.always_taken
       /\ (/\ IsIndirectUpdate(last)
           /\ IsIndirectPredict(last')
           /\ last'.ip = last.ip
           /\ last'.branch_type = last.branch_type) =>
              (last'.target = last.branch_target /\ last'.always_taken)]_vars

\* under a history other than 0, an indirect call was predicted target 16
\* while another target is in the table
C9_Witness ==
    /\ IsIndirectPredict(last)
    /\ last.branch_type = BRANCH_INDIRECT_CALL
    /\ basic_btb_conditional_history # 0
    /\ last.target = 16
    /\ \E i \in 0 .. (BASIC_BTB_INDIRECT_SIZE - 1) : basic_btb_indirect[i] = 8

\* ---------------------------------------------------------------- C11
\* C11: a btb_prediction of a return returns p + sizes[p mod size], where p
\* is what the slot at the top index holds (0 in a stack nothing was pushed
\* on), with always_taken true.
C11_ReturnPrediction ==
    [][IsPeek(last') =>
          LET p == basic_btb_ras[basic_btb_ras_index]
          IN  /\ last'.target =
                     p + basic_btb_call_instr_sizes[
                             p % BASIC_BTB_CALL_INSTR_SIZE_TRACKERS]
              /\ last'.always_taken = TRUE]_vars

\* a return was predicted from a call site on the stack whose tracker had
\* been recalibrated, while the slot below the top holds another address
C11_Witness ==
    /\ IsPeek(last)
    /\ basic_btb_ras[basic_btb_ras_index] \in RasAddrs
    /\ basic_btb_ras[PopIndex(basic_btb_ras_index)]
           # basic_btb_ras[basic_btb_ras_index]
    /\ basic_btb_call_instr_sizes[
           basic_btb_ras[basic_btb_ras_index]
               % BASIC_BTB_CALL_INSTR_SIZE_TRACKERS] # DefaultCallSize
    /\ last.target =
           basic_btb_ras[basic_btb_ras_index]
             + basic_btb_call_instr_sizes[
                   basic_btb_ras[basic_btb_ras_index]
                       % BASIC_BTB_CALL_INSTR_SIZE_TRACKERS]

\* ---------------------------------------------------------------- C12
\* the last call was an update_btb of a target-cache kind
IsCacheUpdate(l) == l.op = "update_btb" /\ l.branch_type \in CacheKinds

\* C12: an update_btb of a target-cache kind whose ip is in no way of its
\* set and that does not allocate (not taken, or target 0) leaves every
\* slot of the target cache as it was and stores nothing outside it; and
\* whatever slot an update_btb changes is a way of the set of its ip.
C12_MissWithoutAllocationKeepsCache ==
    [][IsCacheUpdate(last') =>
          /\ (~last'.present /\ ~(last'.taken /\ last'.branch_target # 0))
                 => (basic_btb' = basic_btb /\ past_end' = past_end)
          /\ \A i \in BtbSlots :
                 basic_btb'[i] # basic_btb[i] => i \in WaysOf(last'.ip)]_vars

\* ---------------------------------------------------------------- C13
\* the slots of set s that hold the tag a
SlotsWithTag(s, a) ==
    {i \in (s * BASIC_BTB_WAYS) .. (s * BASIC_BTB_WAYS + BASIC_BTB_WAYS - 1) :
        basic_btb[i].ip_tag = a}

\* C13: in every reachable state, for every set and every non-zero address
\* a, at most one way of the set holds the tag a.
C13_TagUnique ==
    \A s \in 0 .. (BASIC_BTB_SETS - 1) :
        \A i \in BtbSlots :
            basic_btb[i].ip_tag # 0 =>
                Cardinality(SlotsWithTag(s, basic_btb[i].ip_tag)) <= 1

\* a taken update found its tag in the second way of a set whose first way
\* holds another tag with the same stamp, the way an allocation would choose
C13_Witness ==
    /\ IsCacheUpdate(last)
    /\ last.present
    /\ last.taken
    /\ last.branch_target # 0
    /\ last.slot = SetBegin(last.ip) + 1
    /\ basic_btb[SetBegin(last.ip)].ip_tag \notin {0, last.ip}
    /\ basic_btb[SetBegin(last.ip)].last_cycle_used
           = basic_btb[last.slot].last_cycle_used
    /\ SlotsWithTag(SetIdx(last.ip), last.ip) = {last.slot}

\* ---------------------------------------------------------------- C14
\* C14: the top index is within [0, capacity) before and after every push
\* and pop, pops of a stack nothing is on included; a push at
\* index capacity - 1 leaves the index at 0 and a pop at index 0 leaves it
\* at capacity - 1.
C14_RasIndexInRange ==
    [][/\ basic_btb_ras_index \in 0 .. (BASIC_BTB_RAS_SIZE - 1)
       /\ basic_btb_ras_index' \in 0 .. (BASIC_BTB_RAS_SIZE - 1)
       /\ (IsPush(last') /\ basic_btb_ras_index = BASIC_BTB_RAS_SIZE - 1)
              => basic_btb_ras_index' = 0
       /\ (IsPop(last') /\ basic_btb_ras_index = 0)
              => basic_btb_ras_index' = BASIC_BTB_RAS_SIZE - 1]_vars

\* a pop of a stack that holds no address has taken the index from 0 to the
\* last slot
C14_Witness ==
    /\ IsPop(last)
    /\ last.call_ip = 0
    /\ \A i \in 0 .. (BASIC_BTB_RAS_SIZE - 1) : basic_btb_ras[i] = 0
    /\ basic_btb_ras_index = BASIC_BTB_RAS_SIZE - 1

\* ---------------------------------------------------------------- C15
\* the last call was an update_btb of a conditional branch
IsConditionalUpdate(l) ==
    l.op = "update_btb" /\ l.branch_type = BRANCH_CONDITIONAL

\* C15: an update_btb of a conditional branch leaves the history at
\* ((old * 2) + (1 if taken, else 0)) mod 2^W, where 2^W is the size of the
\* indirect table, and the history is within [0, 2^W) before and after
\* every call.
C15_HistoryShift ==
    [][/\ basic_btb_conditional_history \in 0 .. (BASIC_BTB_INDIRECT_SIZE - 1)
       /\ basic_btb_conditional_history' \in 0 .. (BASIC_BTB_INDIRECT_SIZE - 1)
       /\ IsConditionalUpdate(last') =>
              basic_btb_conditional_history' =
                  ((basic_btb_conditional_history * 2)
                     + (IF last'.taken THEN 1 ELSE 0))
                  % BASIC_BTB_INDIRECT_SIZE]_vars

\* a conditional branch resolved not-taken after W - 1 taken ones: every bit
\* of the history but bit 0 is set
C15_Witness ==
    /\ IsConditionalUpdate(last)
    /\ ~last.taken
    /\ basic_btb_conditional_history = BASIC_BTB_INDIRECT_SIZE - 2

\* ---------------------------------------------------------------- frame of predictions
\* every branch kind on one address of the last set (4), and direct jumps on
\* another address of that set (12); every update is of a taken branch
FrameAddrs == {4}
FrameJumpAddrs == {12}
FrameTargets == {8}

PredictAnyKind ==
    \/ \E ip \in FrameAddrs, k \in BranchKinds :
           btb_prediction(ip, k) /\ UNCHANGED history
    \/ \E ip \in FrameJumpAddrs :
           btb_prediction(ip, BRANCH_DIRECT_JUMP) /\ UNCHANGED history

UpdateTaken ==
    \/ \E ip \in FrameAddrs, t \in FrameTargets,
          k \in {BRANCH_DIRECT_CALL, BRANCH_CONDITIONAL,
                 BRANCH_INDIRECT, BRANCH_RETURN} :
           update_btb(ip, t, TRUE, k) /\ UNCHANGED history
    \/ \E ip \in FrameJumpAddrs, t \in FrameTargets :
           update_btb(ip, t, TRUE, BRANCH_DIRECT_JUMP) /\ UNCHANGED history

NextFrame == PredictAnyKind \/ UpdateTaken \/ Tick

SpecFrame == Init /\ [][NextFrame]_vars

\* ---------------------------------------------------------------- C16
IsPrediction(l) == l.op = "btb_prediction"

\* C16 (a step that leaves the cycle counter alone is a call, and last' is
\* that call): a btb_prediction of a call (direct or indirect) advances the top
\* index by one slot, with wraparound, and stores its ip there, changing no
\* other slot; a btb_prediction of any other kind, returns included, leaves
\* slots and index as they were. No btb_prediction changes the indirect
\* table, the history or the size trackers, and in the target cache it
\* changes nothing but last_cycle_used of the entry it hit, which it sets to
\* the current cycle.
C16_PredictionFrame ==
    [][(IsPrediction(last') /\ current_cycle' = current_cycle) =>
          /\ IF last'.branch_type \in CallKinds
             THEN LET top == (basic_btb_ras_index + 1) % BASIC_BTB_RAS_SIZE
                  IN  /\ basic_btb_ras_index' = top
                      /\ basic_btb_ras' =
                             [basic_btb_ras EXCEPT ![top] = last'.ip]
             ELSE /\ basic_btb_ras_index' = basic_btb_ras_index
                  /\ basic_btb_ras' = basic_btb_ras
          /\ basic_btb_indirect' = basic_btb_indirect
          /\ basic_btb_conditional_history' = basic_btb_conditional_history
          /\ basic_btb_call_instr_sizes' = basic_btb_call_instr_sizes
          /\ past_end' = past_end
          /\ \A i \in BtbSlots :
                 /\ basic_btb'[i].ip_tag = basic_btb[i].ip_tag
                 /\ basic_btb'[i].target = basic_btb[i].target
                 /\ basic_btb'[i].always_taken = basic_btb[i].always_taken
                 /\ basic_btb'[i].last_cycle_used # basic_btb[i].last_cycle_used
                        => /\ last'.branch_type \in CacheKinds
                           /\ i \in WaysOf(last'.ip)
                           /\ basic_btb[i].ip_tag = last'.ip
                           /\ basic_btb'[i].last_cycle_used = current_cycle
          /\ (last'.branch_type \in CacheKinds /\ Present(basic_btb, last'.ip))
                 => \E i \in WaysOf(last'.ip) :
                        /\ basic_btb'[i].ip_tag = last'.ip
                        /\ basic_btb'[i].last_cycle_used = current_cycle]_vars

\* a direct call was predicted from its entry in the target cache, in a
\* cycle after the first: the entry carries the current cycle, the other
\* way of its set holds another tag with an earlier stamp, the address of
\* the call is at the top of the stack, and the history and the indirect
\* table are not what initialize_btb left
C16_Witness ==
    /\ IsPrediction(last)
    /\ last.branch_type = BRANCH_DIRECT_CALL
    /\ last.target # 0
    /\ current_cycle > 0
    /\ \E i \in WaysOf(last.ip) :
           /\ basic_btb[i].ip_tag = last.ip
           /\ basic_btb[i].last_cycle_used = current_cycle
    /\ basic_btb_ras[basic_btb_ras_index] = last.ip
    /\ basic_btb_ras_index = PushIndex(last.ras_index0)
    /\ \E j \in WaysOf(last.ip) :
           /\ basic_btb[j].ip_tag \notin {0, last.ip}
           /\ basic_btb[j].last_cycle_used < current_cycle
    /\ basic_btb_conditional_history # 0
    /\ \E i \in 0 .. (BASIC_BTB_INDIRECT_SIZE - 1) : basic_btb_indirect[i] # 0

\* ---------------------------------------------------------------- C17
IsUpdate(l) == l.op = "update_btb"

\* the size trackers differ in at most one slot
OneTrackerAtMost(old, new) ==
    Cardinality({i \in 0 .. (BASIC_BTB_CALL_INSTR_SIZE_TRACKERS - 1) :
                    new[i] # old[i]}) <= 1

\* C17 (a step that leaves the cycle counter alone is a call, and last' is
\* that call): an update_btb of an indirect kind changes the addressed slot
\* of the indirect table and nothing else; an update_btb of a return changes
\* the stack, by one pop, and at most one size tracker, and nothing else; an
\* update_btb of a conditional branch changes the history and the target
\* cache and nothing else; an update_btb of a direct jump or a direct call
\* changes the target cache and nothing else. So the history changes for
\* no kind but the conditional, and no update_btb pushes.
C17_UpdateFrame ==
    [][(IsUpdate(last') /\ current_cycle' = current_cycle) =>
          IF last'.branch_type \in IndirectKinds
          THEN /\ basic_btb_indirect' =
                      [basic_btb_indirect EXCEPT
                          ![SlotOf(last'.ip, basic_btb_conditional_history)] =
                              last'.branch_target]
               /\ UNCHANGED <<basic_btb, basic_btb_conditional_history,
                              basic_btb_ras, basic_btb_ras_index,
                              basic_btb_call_instr_sizes, past_end>>
          ELSE IF last'.branch_type = BRANCH_RETURN
          THEN /\ basic_btb_ras' =
                      [basic_btb_ras EXCEPT ![basic_btb_ras_index] = 0]
               /\ basic_btb_ras_index' =
                      (basic_btb_ras_index + BASIC_BTB_RAS_SIZE - 1)
                          % BASIC_BTB_RAS_SIZE
               /\ OneTrackerAtMost(basic_btb_call_instr_sizes,
                                   basic_btb_call_instr_sizes')
               /\ UNCHANGED <<basic_btb, basic_btb_indirect,
                              basic_btb_conditional_history, past_end>>
          ELSE /\ last'.branch_type # BRANCH_CONDITIONAL =>
                      UNCHANGED basic_btb_conditional_history
               /\ UNCHANGED <<basic_btb_indirect, basic_btb_ras,
                              basic_btb_ras_index, basic_btb_call_instr_sizes,
                              past_end>>]_vars

\* ---------------------------------------------------------------- C18
\* the lowest-numbered way of the set of ip among those whose
\* last_cycle_used is the lowest of the set
Victim(ip) ==
    CHOOSE i \in WaysOf(ip) :
        /\ \A j \in WaysOf(ip) :
               basic_btb[i].last_cycle_used <= basic_btb[j].last_cycle_used
        /\ \A j \in WaysOf(ip) :
               j < i => basic_btb[j].last_cycle_used
                            > basic_btb[i].last_cycle_used

\* C18 (a step that leaves the cycle counter alone is a call, and last' is
\* that call): an update_btb that allocates (its ip is in no way of its set,
\* the branch was taken and the target is not 0) stores its entry in the
\* lowest-numbered way of the set of ip among those of minimal
\* last_cycle_used, and leaves every other slot of the target cache, in
\* that set and outside it, as it was.
C18_VictimSelection ==
    [][(/\ IsCacheUpdate(last')
        /\ current_cycle' = current_cycle
        /\ ~Present(basic_btb, last'.ip)
        /\ last'.taken
        /\ last'.branch_target # 0) =>
          /\ basic_btb'[Victim(last'.ip)] =
                 [ip_tag |-> last'.ip, target |-> last'.branch_target,
                  always_taken |-> TRUE, last_cycle_used |-> current_cycle]
          /\ \A i \in BtbSlots \ {Victim(last'.ip)} :
                 basic_btb'[i] = basic_btb[i]
          /\ past_end' = past_end]_vars

\* an allocation chose the second way of its set: the first way holds
\* another tag that was used in a later cycle than the initial one
C18_Witness ==
    /\ IsCacheUpdate(last)
    /\ ~last.present
    /\ last.taken
    /\ last.branch_target # 0
    /\ last.slot = SetBegin(last.ip) + 1
    /\ basic_btb[last.slot].ip_tag = last.ip
    /\ basic_btb[last.slot].last_cycle_used = current_cycle
    /\ basic_btb[SetBegin(last.ip)].ip_tag \notin {0, last.ip}
    /\ basic_btb[SetBegin(last.ip)].last_cycle_used > 0

\* ---------------------------------------------------------------- nested calls
\* two call sites with different trackers, the return instruction, the
\* targets calls resolve to and the targets returns resolve to
NestCallAddrs == {4, 9}
NestCallTargets == {16}
NestReturnTargets == {0, 8, 13}

\* every btb_prediction is directly followed by the update_btb of the
\* branch it predicted: a branch is predicted only when the last call was
\* not a prediction
NoneOutstanding == last.op # "btb_prediction"

\* a call inside at most capacity - 1 calls that have not returned
PredictNestedCall ==
    /\ NoneOutstanding
    /\ Len(nesting) < BASIC_BTB_RAS_SIZE
    /\ \E ip \in NestCallAddrs, k \in CallKinds :
           /\ btb_prediction(ip, k)
           /\ nesting' = Append(nesting, ip)
           /\ UNCHANGED <<inserted, untaken, pushed, popped, inflight>>

\* the return of the innermost call that has not returned
PredictNestedReturn ==
    /\ NoneOutstanding
    /\ Len(nesting) > 0
    /\ \E ip \in RetAddrs :
           btb_prediction(ip, BRANCH_RETURN) /\ UNCHANGED history

\* a conditional branch between the calls and the returns
PredictNestedConditional ==
    /\ NoneOutstanding
    /\ \E ip \in CondAddrs :
           btb_prediction(ip, BRANCH_CONDITIONAL) /\ UNCHANGED history

\* the update_btb of the branch that was just predicted
UpdatePredicted ==
    /\ ~NoneOutstanding
    /\ IF last.branch_type = BRANCH_RETURN
       THEN /\ \E t \in NestReturnTargets :
                   update_btb(last.ip, t, TRUE, BRANCH_RETURN)
            /\ nesting' = SubSeq(nesting, 1, Len(nesting) - 1)
            /\ UNCHANGED <<inserted, untaken, pushed, popped, inflight>>
       ELSE IF last.branch_type \in CallKinds
       THEN /\ \E t \in NestCallTargets :
                   update_btb(last.ip, t, TRUE, last.branch_type)
            /\ UNCHANGED history
       ELSE /\ \E t \in NestCallTargets, taken \in BOOLEAN :
                   update_btb(last.ip, t, taken, last.branch_type)
            /\ UNCHANGED history

NextNested ==
    \/ PredictNestedCall
    \/ PredictNestedReturn
    \/ PredictNestedConditional
    \/ UpdatePredicted

SpecNested == Init /\ [][NextNested]_vars

\* ---------------------------------------------------------------- C19
\* C19: in a run where every btb_prediction is directly followed by the
\* update_btb of the same branch, and calls and returns are nested at most
\* capacity deep, the btb_prediction of a return returns c + sizes[c mod
\* size], c being the address of the innermost call that has not returned,
\* and the update_btb of that return pops c.
C19_NestedCalls ==
    [][/\ IsPeek(last') =>
              LET c == nesting[Len(nesting)]
              IN  last'.target =
                      c + basic_btb_call_instr_sizes[
                              c % BASIC_BTB_CALL_INSTR_SIZE_TRACKERS]
       /\ IsPop(last') => last'.call_ip = nesting[Len(nesting)]]_vars

\* the return of a call made inside another call, which has not returned,
\* has popped the address of the inner call from the slot the index wrapped
\* to
C19_Witness ==
    /\ IsPop(last)
    /\ Len(nesting) = BASIC_BTB_RAS_SIZE - 1
    /\ last.call_ip \in NestCallAddrs \ {nesting[Len(nesting)]}
    /\ basic_btb_ras[basic_btb_ras_index] = nesting[Len(nesting)]
    /\ basic_btb_ras_index = BASIC_BTB_RAS_SIZE - 1

\* ---------------------------------------------------------------- pipelined calls
\* a branch that was predicted and is not yet updated: for a return, the
\* address its prediction peeked, and whether a call was predicted or
\* another return updated since
Inflight(ip, branch_type, peeked) ==
    [ip |-> ip, branch_type |-> branch_type, peeked |-> peeked,
     disturbed |-> FALSE]

\* the branches in flight, each marked as having seen the stack move
Disturbed(q) == [i \in 1 .. Len(q) |-> [q[i] EXCEPT !.disturbed = TRUE]]

\* the prediction of a call, younger than every branch in flight
PredictYoungerCall ==
    /\ Len(inflight) < MaxInflight
    /\ \E ip \in NestCallAddrs, k \in CallKinds :
           /\ btb_prediction(ip, k)
           /\ inflight' = Append(Disturbed(inflight), Inflight(ip, k, 0))
           /\ UNCHANGED <<inserted, untaken, pushed, popped, nesting>>

\* the prediction of a return, younger than every branch in flight
PredictYoungerReturn ==
    /\ Len(inflight) < MaxInflight
    /\ \E ip \in RetAddrs :
           /\ btb_prediction(ip, BRANCH_RETURN)
           /\ inflight' = Append(inflight,
                              Inflight(ip, BRANCH_RETURN,
                                  peek_basic_btb_ras(basic_btb_ras,
                                                     basic_btb_ras_index)))
           /\ UNCHANGED <<inserted, untaken, pushed, popped, nesting>>

\* the prediction of an indirect jump, younger than every branch in flight
PredictYoungerJump ==
    /\ Len(inflight) < MaxInflight
    /\ \E ip \in IndirectCallAddrs :
           /\ btb_prediction(ip, BRANCH_INDIRECT)
           /\ inflight' = Append(inflight, Inflight(ip, BRANCH_INDIRECT, 0))
           /\ UNCHANGED <<inserted, untaken, pushed, popped, nesting>>

\* the update_btb of the oldest branch in flight; popped keeps what the
\* last return updated had recorded at its prediction
UpdateOldest ==
    /\ Len(inflight) > 0
    /\ LET b == Head(inflight)
       IN  IF b.branch_type = BRANCH_RETURN
           THEN /\ \E t \in NestReturnTargets :
                       update_btb(b.ip, t, TRUE, BRANCH_RETURN)
                /\ inflight' = Disturbed(Tail(inflight))
                /\ popped' = <<b>>
                /\ UNCHANGED <<inserted, untaken, pushed, nesting>>
           ELSE /\ \E t \in NestCallTargets :
                       update_btb(b.ip, t, TRUE, b.branch_type)
                /\ inflight' = Tail(inflight)
                /\ UNCHANGED <<inserted, untaken, pushed, popped, nesting>>

NextPipeline ==
    \/ PredictYoungerCall
    \/ PredictYoungerReturn
    \/ PredictYoungerJump
    \/ UpdateOldest

SpecPipeline == Init /\ [][NextPipeline]_vars

\* ---------------------------------------------------------------- C20
\* C20 as stated: when every branch is predicted once and updated once
\* later, the updates in the order of the predictions but possibly after
\* the predictions of younger branches, the update_btb of a return pops the
\* address the btb_prediction of that return peeked.
C20_PopsWhatWasPeeked ==
    (IsPop(last) /\ popped # <<>>) => last.call_ip = popped[1].peeked

\* C20 amended: under the same interleavings, the update_btb of a return
\* pops the address the btb_prediction of that return peeked, provided that
\* between that prediction and that update no call was predicted and no
\* other return was updated.
C20_PopsWhatWasPeekedUndisturbed ==
    (IsPop(last) /\ popped # <<>> /\ ~popped[1].disturbed)
        => last.call_ip = popped[1].peeked

\* a return was updated after a younger indirect jump was predicted, which
\* is still in flight; no call was predicted and no return updated since
\* the return was predicted, and it popped the call site it had peeked
C20_Witness ==
    /\ IsPop(last)
    /\ popped # <<>>
    /\ ~popped[1].disturbed
    /\ popped[1].peeked \in NestCallAddrs
    /\ last.call_ip = popped[1].peeked
    /\ Len(inflight) > 0
    /\ inflight[1].branch_type = BRANCH_INDIRECT

====
